---- MODULE Spec2Model ----
(***************************************************************************)
(* Routing-and-aggregation core of the micro-prompt backend.               *)
(*                                                                         *)
(* One request is followed from its entry to its end.  It is handled       *)
(* either by the /chat endpoint (process_chat, which validates access,     *)
(* calls LLMRouter.route_and_process_prompts and saves the interaction)    *)
(* or by LangGraphAgent.run (prompt_breaker, researcher, llm_caller,       *)
(* linker).  Text is a sequence of one-character strings; the text a       *)
(* provider returns is a record naming the call that produced it.          *)
(*                                                                         *)
(* Spec follows one request under the default MODEL_CONFIG, SpecEnv under  *)
(* a MODEL_CONFIG read from the environment, SpecLinker follows runs of    *)
(* the agent from its linker on, over queries in mixed case, and SpecPair  *)
(* follows two /chat requests interleaved on one event loop.               *)
(* SpecRoute follows route_and_process_prompts called on its own for every *)
(* short string, and SpecFallback the agent's runs whose research output   *)
(* does not parse.  SpecSave follows two save_chat_history calls whose     *)
(* database calls interleave on the shared tables.                         *)
(***************************************************************************)
EXTENDS Integers, Sequences, FiniteSets, TLC

VARIABLES
    settings,           \* where Settings.MODEL_CONFIG comes from: "default" or "env"
    impl,               \* "router": process_chat + LLMRouter; "agent": LangGraphAgent.run
    user_query,         \* request.query / GraphState.user_query
    subscription_tier,  \* current_user["subscription_tier"] / GraphState.subscription_tier
    requested_model,    \* request.model / GraphState.requested_model
    pc,                 \* position of the request's coroutine
    micro_prompts,      \* prompts (router) / GraphState.micro_prompts
    model_assignments,  \* GraphState.model_assignments, in dict insertion order
    tasks,              \* the awaitables handed to asyncio.gather, in list order
    responses,          \* what asyncio.gather returned
    llm_responses,      \* GraphState.llm_responses, in dict insertion order
    models_used,        \* models_used (router) / GraphState.models_used
    aggregated_response,\* the operands of the final join / the linker's output
    status,             \* HTTP status of the /chat request, 0 while it runs
    error,              \* the exception that ended the request, "none" otherwise
    chat_history,       \* rows inserted by save_chat_history
    save_calls,         \* the arguments of each save_chat_history invocation
    res,                \* what the caller received: <<>> or one Res / final GraphState
    runs,               \* concurrent /chat requests: each one's arguments and position
    frames,             \* the locals of each route_and_process_prompts invocation
    users,              \* rows of the "users" table, in insertion order
    chat_sessions,      \* rows of the "chat_sessions" table, in insertion order
    savers              \* concurrent save_chat_history calls: arguments, locals, position

vars == <<users, chat_sessions, savers, runs, frames, settings, impl, user_query, subscription_tier, requested_model, pc,
          micro_prompts, model_assignments, tasks, responses, llm_responses, models_used,
          aggregated_response, status, error, chat_history, save_calls, res>>

----------------------------------------------------------------------------
(* Bounds *)

\* Sentences in a /chat query.
MaxSentences == 4

\* Micro-prompts the prompt breaker's chain returns.
MaxPrompts == 2

\* Keys of the JSON object the research agent writes.
MaxAssign == 3

\* Words of a query given to the linker.
MaxWords == 3

\* Characters of a query given to route_and_process_prompts directly.
MaxChars == 5

----------------------------------------------------------------------------
(* core/config.py *)

\* The class default of Settings.MODEL_CONFIG, in key order.
DefaultOrder == <<"gpt-4-o", "mistral-7b", "llama3-8b-local">>

DefaultConfig ==
    [m \in {"gpt-4-o", "mistral-7b", "llama3-8b-local"} |->
        CASE m = "gpt-4-o" ->
                [provider |-> "openai", allowed_subs |-> {"pro", "enterprise"}]
          [] m = "mistral-7b" ->
                [provider |-> "huggingface", allowed_subs |-> {"free", "pro", "enterprise"}]
          [] m = "llama3-8b-local" ->
                [provider |-> "local", allowed_subs |-> {"enterprise"}]]

\* Settings is a BaseSettings: a MODEL_CONFIG in the environment (or .env)
\* replaces the default.  This one adds a model of a fourth provider.
EnvOrder == <<"gpt-4-o", "mistral-7b", "llama3-8b-local", "claude-3">>

EnvConfig ==
    [m \in {"gpt-4-o", "mistral-7b", "llama3-8b-local", "claude-3"} |->
        IF m = "claude-3"
        THEN [provider |-> "anthropic", allowed_subs |-> {"pro", "enterprise"}]
        ELSE DefaultConfig[m]]

ModelOrder == IF settings = "default" THEN DefaultOrder ELSE EnvOrder

ModelNames == {ModelOrder[i] : i \in 1..Len(ModelOrder)}

MODEL_CONFIG == IF settings = "default" THEN DefaultConfig ELSE EnvConfig

HTTP_200_OK == 200

HTTP_403_FORBIDDEN == 403

HTTP_404_NOT_FOUND == 404

HTTP_500_INTERNAL_SERVER_ERROR == 500

----------------------------------------------------------------------------
(* Inputs *)

\* The tier is read from the users table as stored; "trial" stands for a
\* stored value that no model lists in its allowed_subs.
Tiers == {"free", "pro", "enterprise", "trial"}

RequestedModels == {"auto"} \cup ModelNames \cup {"gpt-5"}

Whitespace == {" ", "\t"}

Punctuation == {".", "?", "!"}

Sentences == {<<"a", ".">>, <<"b", "?">>}

SeqsUpTo(S, n) == UNION {[1..k -> S] : k \in 0..n}

RECURSIVE JoinSpace(_)
JoinSpace(ss) ==
    IF ss = <<>> THEN <<>>
    ELSE IF Len(ss) = 1 THEN ss[1]
    ELSE ss[1] \o <<" ">> \o JoinSpace(Tail(ss))

Queries ==
    {JoinSpace(ss) : ss \in SeqsUpTo(Sentences, MaxSentences)}
        \cup {<<" ">>, <<"a">>, <<" ", "a", ".", " ", " ", "b", " ">>}

\* The queries given to LangGraphAgent.run.
AgentQueries == {<<>>, <<"b", "?", " ", "a", ".">>}

\* Every string of up to MaxChars characters over a letter, two sentence ends
\* and two kinds of whitespace.
SplitQueries == SeqsUpTo({"a", ".", "?", " ", "\t"}, MaxChars)

Words ==
    {<<"h", "t", "m", "l">>, <<"c", "s", "s">>, <<"j", "s">>,
     <<"H", "T", "M", "L">>, <<"C", "s", "s">>, <<"J", "S">>, <<"j">>, <<" ">>}

RECURSIVE Concat(_)
Concat(ws) == IF ws = <<>> THEN <<>> ELSE Head(ws) \o Concat(Tail(ws))

\* The queries of the runs that are followed from the linker on.
LinkerQueries == {Concat(ws) : ws \in SeqsUpTo(Words, MaxWords)}

----------------------------------------------------------------------------
(* services/splitter.py *)

RECURSIVE SkipSpace(_, _)
SkipSpace(q, i) ==
    IF i <= Len(q) /\ q[i] \in Whitespace THEN SkipSpace(q, i + 1) ELSE i

\* Mutant: r'(?<=[.?!])\s*', which also splits where no whitespace follows.
RECURSIVE ReSplitFrom_AnySpace(_, _, _)
ReSplitFrom_AnySpace(q, i, cur) ==
    IF i > Len(q) THEN <<cur>>
    ELSE IF q[i] \in Punctuation
         THEN <<Append(cur, q[i])>> \o ReSplitFrom_AnySpace(q, SkipSpace(q, i + 1), <<>>)
         ELSE ReSplitFrom_AnySpace(q, i + 1, Append(cur, q[i]))

\* re.split(r'(?<=[.?!])\s+', q): the pieces between the maximal whitespace
\* runs that directly follow a punctuation mark.
RECURSIVE ReSplitFrom(_, _, _)
ReSplitFrom(q, i, cur) ==
    IF i > Len(q) THEN <<cur>>
    ELSE IF q[i] \in Whitespace /\ i > 1 /\ q[i - 1] \in Punctuation
         THEN <<cur>> \o ReSplitFrom(q, SkipSpace(q, i), <<>>)
         ELSE ReSplitFrom(q, i + 1, Append(cur, q[i]))

RECURSIVE LStrip(_)
LStrip(s) == IF s # <<>> /\ Head(s) \in Whitespace THEN LStrip(Tail(s)) ELSE s

RECURSIVE RStrip(_)
RStrip(s) ==
    IF s # <<>> /\ s[Len(s)] \in Whitespace THEN RStrip(SubSeq(s, 1, Len(s) - 1)) ELSE s

Strip(s) == RStrip(LStrip(s))

\* Mutant: the stripped sentences are returned without the "if sentence.strip()".
split_prompt_Unfiltered(q) ==
    IF q = <<>> THEN <<>>
    ELSE LET sentences == ReSplitFrom(q, 1, <<>>)
         IN  [i \in 1..Len(sentences) |-> Strip(sentences[i])]

split_prompt(q) ==
    IF q = <<>> THEN <<>>
    ELSE LET sentences == ReSplitFrom(q, 1, <<>>)
             stripped  == [i \in 1..Len(sentences) |-> Strip(sentences[i])]
         IN  SelectSeq(stripped, LAMBDA s : s # <<>>)

----------------------------------------------------------------------------
(* core/security.py *)

\* Mutant: the tier is never compared with allowed_subs.
validate_model_access_NoTierCheck(m, user_sub) ==
    IF m \notin DOMAIN MODEL_CONFIG THEN "not_found" ELSE "ok"

\* Mutant: MODEL_CONFIG.get(requested_model, {}), so an unknown model has no
\* allowed_subs and is refused as forbidden.
validate_model_access_DefaultConfig(m, user_sub) ==
    IF m \notin DOMAIN MODEL_CONFIG \/ user_sub \notin MODEL_CONFIG[m].allowed_subs
    THEN "forbidden"
    ELSE "ok"

\* "ok", or the HTTPException it raises.
validate_model_access(m, user_sub) ==
    IF m \notin DOMAIN MODEL_CONFIG THEN "not_found"
    ELSE IF user_sub \notin MODEL_CONFIG[m].allowed_subs THEN "forbidden"
    ELSE "ok"

\* Mutant: process_chat without "except HTTPException: raise he"; the rejection
\* falls into the generic handler.
AccessStatus_Generic(e) == HTTP_500_INTERNAL_SERVER_ERROR

\* The status_code of the HTTPException validate_model_access raises, which
\* process_chat re-raises unchanged.
AccessStatus(e) == IF e = "not_found" THEN HTTP_404_NOT_FOUND ELSE HTTP_403_FORBIDDEN

----------------------------------------------------------------------------
(* services/llm_router.py *)

\* Mutant: the allowed_subs filter is dropped.
_get_available_models_Unfiltered(user_sub) == ModelOrder

_get_available_models_for_sub(user_sub) ==
    SelectSeq(ModelOrder, LAMBDA m : user_sub \in MODEL_CONFIG[m].allowed_subs)

\* The if / elif / else chain on the provider: anything else is "local".
RouterCall(provider) ==
    IF provider = "openai" THEN "call_openai"
    ELSE IF provider = "huggingface" THEN "call_huggingface"
    ELSE "call_local"

NoResult == [kind |-> "none", call |-> 0, fn |-> "", prompt |-> <<>>, model |-> ""]

\* An awaitable of the gather list: the interface function, the prompt it was
\* invoked with, and its result once it has completed.  model is the name an
\* asyncio.sleep(0, result=...) placeholder carries in its text, "" otherwise.
Task(p, f, m) == [prompt |-> p, fn |-> f, model |-> m, result |-> NoResult]

\* Mutant: the index is taken from 1, so the cycle starts at the second model.
RoundRobinChoice_OffByOne(allowed_models, i) == allowed_models[(i % Len(allowed_models)) + 1]

\* model_choice = allowed_models[i % len(allowed_models)], i counted from 0.
RoundRobinChoice(allowed_models, i) == allowed_models[((i - 1) % Len(allowed_models)) + 1]

AutoModels(prompts, allowed_models) ==
    [i \in 1..Len(prompts) |-> RoundRobinChoice(allowed_models, i)]

\* Mutant: the requested model is ignored in favour of a default.
FixedModels_Default(prompts, m) == [i \in 1..Len(prompts) |-> "mistral-7b"]

FixedModels(prompts, m) == [i \in 1..Len(prompts) |-> m]

\* Mutant: the usage entry is appended once, after the loop.
RouterModelsUsed_Once(prompts, models) ==
    <<[micro_prompt |-> prompts[Len(prompts)], model |-> models[Len(prompts)]]>>

\* models_used.append({"micro_prompt": prompt, "model": ...}) in each iteration
RouterModelsUsed(prompts, models) ==
    [i \in 1..Len(prompts) |-> [micro_prompt |-> prompts[i], model |-> models[i]]]

RouterTasks(prompts, models) ==
    [i \in 1..Len(prompts) |->
        Task(prompts[i], RouterCall(MODEL_CONFIG[models[i]].provider), "")]

CouldNotProcess ==
    [kind |-> "could_not_process", call |-> 0, fn |-> "", prompt |-> <<>>, model |-> ""]

\* Mutant: " ".join(responses), without filter(None, ...).
JoinNonEmpty_Unfiltered(rs) == rs

\* " ".join(filter(None, responses)): the non-empty responses, in list order.
JoinNonEmpty(rs) == SelectSeq(rs, LAMBDA r : r.kind # "empty")

\* Mutant: the wait ends with the first awaitable that completes.
AllDone_FirstCompleted(ts) == ts = <<>> \/ \E i \in 1..Len(ts) : ts[i].result.kind # "none"

\* Every awaitable has completed: what asyncio.gather waits for.
AllDone(ts) == \A i \in 1..Len(ts) : ts[i].result.kind # "none"

GatherResults(ts) == [i \in 1..Len(ts) |-> ts[i].result]

----------------------------------------------------------------------------
(* services/interface/*.py *)

EmptyText == [kind |-> "empty", call |-> 0, fn |-> "", prompt |-> <<>>, model |-> ""]

\* Mutant: no try / except around chain.ainvoke, the exception is the outcome.
CallResult_Unhandled(t, i, outcome) ==
    IF t.fn = "sleep"
    THEN [kind |-> "unknown_provider", call |-> i, fn |-> "", prompt |-> <<>>,
          model |-> t.model]
    ELSE IF outcome = "empty" THEN EmptyText
    ELSE IF outcome = "error"
         THEN [kind |-> "exception", call |-> i, fn |-> t.fn, prompt |-> <<>>, model |-> ""]
         ELSE [kind |-> "text", call |-> i, fn |-> t.fn, prompt |-> t.prompt, model |-> ""]

\* What awaitable i returns.  call_openai / call_huggingface / call_local return
\* the chain's text for the prompt ("text", possibly the empty string) or, when
\* chain.ainvoke raises, the error text of except Exception ("error").  The
\* placeholder returns its preset text.  call is the identity of the invocation.
CallResult(t, i, outcome) ==
    IF t.fn = "sleep"
    THEN [kind |-> "unknown_provider", call |-> i, fn |-> "", prompt |-> <<>>,
          model |-> t.model]
    ELSE IF outcome = "empty" THEN EmptyText
    ELSE IF outcome = "error"
         THEN [kind |-> "error", call |-> i, fn |-> t.fn, prompt |-> <<>>, model |-> ""]
         ELSE [kind |-> "text", call |-> i, fn |-> t.fn, prompt |-> t.prompt, model |-> ""]

Outcomes(t) == IF t.fn = "sleep" THEN {"preset"} ELSE {"text", "empty", "error"}

----------------------------------------------------------------------------
(* services/langgraph_agent.py *)

InSeq(x, s) == \E i \in 1..Len(s) : s[i] = x

Min(a, b) == IF a < b THEN a ELSE b

StalePrompt == <<"z">>

AgentKeys == Sentences \cup {StalePrompt}

AgentModels == {"gpt-4-o", "mistral-7b", "gpt-5"}

\* The JSON objects the research agent's output text may hold: keys in the
\* order written, no key twice.
Assignments ==
    {a \in SeqsUpTo([prompt : AgentKeys, model : AgentModels], MaxAssign) :
        \A i, j \in 1..Len(a) : i # j => a[i].prompt # a[j].prompt}

\* self.model_config.get(model_name, {}).get("provider")
ProviderOf(m) == IF m \in DOMAIN MODEL_CONFIG THEN MODEL_CONFIG[m].provider ELSE "None"

AgentCall(provider) ==
    IF provider = "openai" THEN "call_openai"
    ELSE IF provider = "huggingface" THEN "call_huggingface"
    ELSE IF provider = "local" THEN "call_local"
    ELSE "sleep"

AgentTask(a) ==
    LET f == AgentCall(ProviderOf(a.model))
    IN  Task(a.prompt, f, IF f = "sleep" THEN a.model ELSE "")

\* for prompt, model_name in model_assignments.items():
\*     if prompt not in state["micro_prompts"]: continue
RECURSIVE AgentTasks(_, _)
AgentTasks(assignments, prompts) ==
    IF assignments = <<>> THEN <<>>
    ELSE IF ~InSeq(Head(assignments).prompt, prompts)
         THEN AgentTasks(Tail(assignments), prompts)
         ELSE <<AgentTask(Head(assignments))>> \o AgentTasks(Tail(assignments), prompts)

\* {prompt: response for prompt, response in zip(model_assignments.keys(), responses)
\*  if prompt in state["micro_prompts"]}
ZipResponses(assignments, rs, prompts) ==
    LET n     == Min(Len(assignments), Len(rs))
        pairs == [i \in 1..n |-> [prompt |-> assignments[i].prompt, response |-> rs[i]]]
    IN  SelectSeq(pairs, LAMBDA e : InSeq(e.prompt, prompts))

\* Mutant: one usage entry per distinct model instead of one per assignment.
RECURSIVE AgentModelsUsed_Distinct(_)
AgentModelsUsed_Distinct(assignments) ==
    IF assignments = <<>> THEN <<>>
    ELSE LET rest == AgentModelsUsed_Distinct(Tail(assignments))
             e    == [model |-> Head(assignments).model,
                      provider |-> ProviderOf(Head(assignments).model)]
         IN  IF InSeq(e, rest) THEN rest ELSE <<e>> \o rest

\* [{"model": name, "provider": ...} for name in model_assignments.values()]
AgentModelsUsed(assignments) ==
    [i \in 1..Len(assignments) |->
        [model |-> assignments[i].model, provider |-> ProviderOf(assignments[i].model)]]

\* {prompt: available_models[0] for prompt in state["micro_prompts"]}: a dict, so
\* a prompt listed twice is one key, at its first place.
RECURSIVE FallbackAssignments(_, _, _)
FallbackAssignments(prompts, m, seen) ==
    IF prompts = <<>> THEN <<>>
    ELSE IF Head(prompts) \in seen THEN FallbackAssignments(Tail(prompts), m, seen)
    ELSE <<[prompt |-> Head(prompts), model |-> m]>>
            \o FallbackAssignments(Tail(prompts), m, seen \cup {Head(prompts)})

RECURSIVE Contains(_, _)
Contains(s, kw) ==
    IF Len(s) < Len(kw) THEN FALSE
    ELSE SubSeq(s, 1, Len(kw)) = kw \/ Contains(Tail(s), kw)

LowerChar(c) ==
    CASE c = "A" -> "a" [] c = "B" -> "b" [] c = "C" -> "c" [] c = "H" -> "h"
      [] c = "J" -> "j" [] c = "L" -> "l" [] c = "M" -> "m" [] c = "S" -> "s"
      [] c = "T" -> "t" [] OTHER -> c

Lower(s) == [i \in 1..Len(s) |-> LowerChar(s[i])]

\* Mutant: the query is searched as written, without .lower().
is_code_task_CaseSensitive(q) ==
    \A kw \in {<<"h", "t", "m", "l">>, <<"c", "s", "s">>, <<"j", "s">>} : Contains(q, kw)

\* all(kw in user_query for kw in ["html", "css", "js"]), user_query lower-cased
is_code_task(q) ==
    \A kw \in {<<"h", "t", "m", "l">>, <<"c", "s", "s">>, <<"j", "s">>} :
        Contains(Lower(q), kw)

Synthesis(strategy) ==
    [kind |-> strategy, call |-> 0, fn |-> "", prompt |-> <<>>, model |-> ""]

----------------------------------------------------------------------------
(* State machine *)

InitWith(source) ==
    /\ settings = source
    /\ impl \in {"router", "agent"}
    /\ user_query \in (IF impl = "router" THEN Queries ELSE AgentQueries)
    /\ subscription_tier \in Tiers
    /\ requested_model \in (IF impl = "router" THEN RequestedModels ELSE {"auto"})
    /\ pc = (IF impl = "router" THEN "validate" ELSE "prompt_breaker")
    /\ micro_prompts = <<>>
    /\ model_assignments = <<>>
    /\ tasks = <<>>
    /\ responses = <<>>
    /\ llm_responses = <<>>
    /\ models_used = <<>>
    /\ aggregated_response = <<>>
    /\ status = 0
    /\ error = "none"
    /\ chat_history = <<>>
    /\ save_calls = <<>>
    /\ res = <<>>
    /\ users = <<>>
    /\ chat_sessions = <<>>
    /\ savers = <<>>
    /\ runs = <<>>
    /\ frames = <<>>

Init == InitWith("default")

\* process_chat, step 2: if request.model != "auto": validate_model_access(...)
ValidateAccess ==
    /\ impl = "router" /\ pc = "validate"
    /\ LET r == IF requested_model # "auto"
                THEN validate_model_access(requested_model, subscription_tier)
                ELSE "ok"
       IN  IF r = "ok"
           THEN /\ pc' = "route"
                /\ UNCHANGED <<status, error>>
           ELSE /\ pc' = "done"
                /\ status' = AccessStatus(r)
                /\ error' = r
    /\ UNCHANGED <<users, chat_sessions, savers, runs, frames, settings, impl, user_query, subscription_tier, requested_model, micro_prompts,
                   model_assignments, tasks, responses, llm_responses, models_used,
                   aggregated_response, chat_history, save_calls, res>>

\* route_and_process_prompts: if not prompts: return "Could not process the query.", []
RouteEmpty ==
    /\ impl = "router" /\ pc = "route"
    /\ split_prompt(user_query) = <<>>
    /\ micro_prompts' = <<>>
    /\ aggregated_response' = <<CouldNotProcess>>
    /\ models_used' = <<>>
    /\ pc' = "save"
    /\ UNCHANGED <<users, chat_sessions, savers, runs, frames, settings, impl, user_query, subscription_tier, requested_model,
                   model_assignments, tasks, responses, llm_responses, status, error,
                   chat_history, save_calls, res>>

\* route_and_process_prompts: raise Exception("No models available ..."), which
\* process_chat turns into HTTP 500.
RouteNoModels ==
    /\ impl = "router" /\ pc = "route"
    /\ split_prompt(user_query) # <<>>
    /\ requested_model = "auto"
    /\ _get_available_models_for_sub(subscription_tier) = <<>>
    /\ micro_prompts' = split_prompt(user_query)
    /\ pc' = "done"
    /\ status' = HTTP_500_INTERNAL_SERVER_ERROR
    /\ error' = "no_models"
    /\ UNCHANGED <<users, chat_sessions, savers, runs, frames, settings, impl, user_query, subscription_tier, requested_model,
                   model_assignments, tasks, responses, llm_responses, models_used,
                   aggregated_response, chat_history, save_calls, res>>

\* route_and_process_prompts called with a model that is no key of MODEL_CONFIG:
\* settings.MODEL_CONFIG[requested_model] raises KeyError.
RouteKeyError ==
    /\ impl = "router" /\ pc = "route"
    /\ split_prompt(user_query) # <<>>
    /\ requested_model # "auto" /\ requested_model \notin DOMAIN MODEL_CONFIG
    /\ micro_prompts' = split_prompt(user_query)
    /\ pc' = "done"
    /\ status' = HTTP_500_INTERNAL_SERVER_ERROR
    /\ error' = "key_error"
    /\ UNCHANGED <<users, chat_sessions, savers, runs, frames, settings, impl, user_query, subscription_tier, requested_model,
                   model_assignments, tasks, responses, llm_responses, models_used,
                   aggregated_response, chat_history, save_calls, res>>

RouterModels(prompts, requested, user_sub) ==
    IF requested = "auto"
    THEN AutoModels(prompts, _get_available_models_for_sub(user_sub))
    ELSE FixedModels(prompts, requested)

\* route_and_process_prompts up to the await of asyncio.gather.
RouteDispatch ==
    /\ impl = "router" /\ pc = "route"
    /\ split_prompt(user_query) # <<>>
    /\ requested_model = "auto" => _get_available_models_for_sub(subscription_tier) # <<>>
    /\ requested_model # "auto" => requested_model \in DOMAIN MODEL_CONFIG
    /\ LET prompts == split_prompt(user_query)
           models  == RouterModels(prompts, requested_model, subscription_tier)
       IN  /\ micro_prompts' = prompts
           /\ models_used' = RouterModelsUsed(prompts, models)
           /\ tasks' = RouterTasks(prompts, models)
    /\ pc' = "gather"
    /\ UNCHANGED <<users, chat_sessions, savers, runs, frames, settings, impl, user_query, subscription_tier, requested_model,
                   model_assignments, responses, llm_responses, aggregated_response,
                   status, error, chat_history, save_calls, res>>

\* Mutant: a call that returned its error text is issued again.
CallReturns_Retry ==
    /\ pc = "gather"
    /\ \E i \in 1..Len(tasks) : \E outcome \in Outcomes(tasks[i]) :
        /\ tasks[i].result.kind \in {"none", "error"}
        /\ tasks' = [tasks EXCEPT ![i].result = CallResult(tasks[i], i, outcome)]
    /\ UNCHANGED <<users, chat_sessions, savers, runs, frames, settings, impl, user_query, subscription_tier, requested_model, pc,
                   micro_prompts, model_assignments, responses, llm_responses,
                   models_used, aggregated_response, status, error, chat_history, save_calls, res>>

\* One awaitable of the gather completes; the others may still be running.
CallReturns ==
    /\ pc = "gather"
    /\ \E i \in 1..Len(tasks) : \E outcome \in Outcomes(tasks[i]) :
        /\ tasks[i].result.kind = "none"
        /\ tasks' = [tasks EXCEPT ![i].result = CallResult(tasks[i], i, outcome)]
    /\ UNCHANGED <<users, chat_sessions, savers, runs, frames, settings, impl, user_query, subscription_tier, requested_model, pc,
                   micro_prompts, model_assignments, responses, llm_responses,
                   models_used, aggregated_response, status, error, chat_history, save_calls, res>>

\* responses = await asyncio.gather(*tasks); aggregated_response = " ".join(...)
RouterJoin ==
    /\ impl = "router" /\ pc = "gather"
    /\ AllDone(tasks)
    /\ responses' = GatherResults(tasks)
    /\ aggregated_response' = JoinNonEmpty(GatherResults(tasks))
    /\ pc' = "save"
    /\ UNCHANGED <<users, chat_sessions, savers, runs, frames, settings, impl, user_query, subscription_tier, requested_model, micro_prompts,
                   model_assignments, tasks, llm_responses, models_used, status, error,
                   chat_history, save_calls, res>>

\* Mutant: the usage list is not handed on to save_chat_history.
SaveArgs_NoModels(q, response, used) ==
    [query |-> q, response |-> response, models_used |-> <<>>]

\* save_chat_history(..., query=request.query, response=aggregated_response,
\*                   models_used=models_used)
SaveArgs(q, response, used) ==
    [query |-> q, response |-> response, models_used |-> used]

\* await supabase_service.save_chat_history(...) succeeds; return Res(...)
SaveAndRespond ==
    /\ impl = "router" /\ pc = "save"
    /\ save_calls' = Append(save_calls, SaveArgs(user_query, aggregated_response, models_used))
    /\ chat_history' = Append(chat_history,
                              SaveArgs(user_query, aggregated_response, models_used))
    /\ res' = <<[query |-> user_query, Models |-> models_used,
                 response |-> aggregated_response]>>
    /\ status' = HTTP_200_OK
    /\ pc' = "done"
    /\ UNCHANGED <<users, chat_sessions, savers, runs, frames, settings, impl, user_query, subscription_tier, requested_model, micro_prompts,
                   model_assignments, tasks, responses, llm_responses, models_used,
                   aggregated_response, error>>

\* save_chat_history raises HTTPException(500, "Failed to save chat history")
SaveFails ==
    /\ impl = "router" /\ pc = "save"
    /\ status' = HTTP_500_INTERNAL_SERVER_ERROR
    /\ error' = "save_failed"
    /\ pc' = "done"
    /\ save_calls' = Append(save_calls, SaveArgs(user_query, aggregated_response, models_used))
    /\ UNCHANGED <<users, chat_sessions, savers, runs, frames, settings, impl, user_query, subscription_tier, requested_model, micro_prompts,
                   model_assignments, tasks, responses, llm_responses, models_used,
                   aggregated_response, chat_history, res>>

\* Mutant: a conditional edge sends the llm_caller back to the researcher.
NextNode_Loop(node) ==
    CASE node = "prompt_breaker" -> "researcher"
      [] node = "researcher" -> "llm_caller"
      [] node = "llm_caller" -> "researcher"
      [] node = "linker" -> "END"

\* _build_graph: the entry point and the edges of the workflow.
NextNode(node) ==
    CASE node = "prompt_breaker" -> "researcher"
      [] node = "researcher" -> "llm_caller"
      [] node = "llm_caller" -> "linker"
      [] node = "linker" -> "END"

\* The exception a node's chain or agent executor raises, named by its node.
NodeError(node) ==
    CASE node = "prompt_breaker" -> "prompt_breaker_error"
      [] node = "researcher" -> "researcher_error"
      [] node = "linker" -> "linker_error"

\* Mutant: the node catches the exception and the graph goes on to the next node.
NodeRaises_Swallowed ==
    /\ impl = "agent" /\ pc \in {"prompt_breaker", "researcher", "linker"}
    /\ error' = NodeError(pc)
    /\ pc' = NextNode(pc)
    /\ UNCHANGED <<users, chat_sessions, savers, runs, frames, settings, impl, user_query, subscription_tier, requested_model, micro_prompts,
                   model_assignments, tasks, responses, llm_responses, models_used,
                   aggregated_response, status, chat_history, save_calls, res>>

\* A node's chain or agent call raises: graph.ainvoke propagates it out of run().
NodeRaises ==
    /\ impl = "agent" /\ pc \in {"prompt_breaker", "researcher", "linker"}
    /\ error' = NodeError(pc)
    /\ pc' = "failed"
    /\ UNCHANGED <<users, chat_sessions, savers, runs, frames, settings, impl, user_query, subscription_tier, requested_model, micro_prompts,
                   model_assignments, tasks, responses, llm_responses, models_used,
                   aggregated_response, status, chat_history, save_calls, res>>

\* _prompt_breaking_agent: response.get("prompts", [state["user_query"]])
PromptBreaker ==
    /\ impl = "agent" /\ pc = "prompt_breaker"
    /\ \E ps \in SeqsUpTo(Sentences, MaxPrompts) \cup {<<user_query>>} :
        micro_prompts' = ps
    /\ pc' = NextNode("prompt_breaker")
    /\ UNCHANGED <<users, chat_sessions, savers, runs, frames, settings, impl, user_query, subscription_tier, requested_model,
                   model_assignments, tasks, responses, llm_responses, models_used,
                   aggregated_response, status, error, chat_history, save_calls, res>>

\* _research_agent, the output text holding a JSON object that parses.
ResearchParsed ==
    /\ impl = "agent" /\ pc = "researcher"
    /\ \E a \in Assignments : model_assignments' = a
    /\ pc' = NextNode("researcher")
    /\ UNCHANGED <<users, chat_sessions, savers, runs, frames, settings, impl, user_query, subscription_tier, requested_model, micro_prompts,
                   tasks, responses, llm_responses, models_used, aggregated_response,
                   status, error, chat_history, save_calls, res>>

\* Mutant: the fallback takes the last available model, available_models[-1].
ResearchFallback_LastModel ==
    /\ impl = "agent" /\ pc = "researcher"
    /\ LET available_models == _get_available_models_for_sub(subscription_tier)
       IN  IF micro_prompts # <<>> /\ available_models = <<>>
           THEN /\ error' = "index_error"
                /\ pc' = "failed"
                /\ UNCHANGED model_assignments
           ELSE /\ model_assignments' =
                      IF micro_prompts = <<>> THEN <<>>
                      ELSE FallbackAssignments(micro_prompts,
                                               available_models[Len(available_models)], {})
                /\ pc' = NextNode("researcher")
                /\ UNCHANGED error
    /\ UNCHANGED <<users, chat_sessions, savers, runs, frames, settings, impl, user_query, subscription_tier, requested_model, micro_prompts,
                   tasks, responses, llm_responses, models_used, aggregated_response,
                   status, chat_history, save_calls, res>>

\* _research_agent, no JSON object in the output text or json.JSONDecodeError:
\* every micro-prompt gets available_models[0], an IndexError when there is none.
ResearchFallback ==
    /\ impl = "agent" /\ pc = "researcher"
    /\ LET available_models == _get_available_models_for_sub(subscription_tier)
       IN  IF micro_prompts # <<>> /\ available_models = <<>>
           THEN /\ error' = "index_error"
                /\ pc' = "failed"
                /\ UNCHANGED model_assignments
           ELSE /\ model_assignments' =
                      IF micro_prompts = <<>> THEN <<>>
                      ELSE FallbackAssignments(micro_prompts, available_models[1], {})
                /\ pc' = NextNode("researcher")
                /\ UNCHANGED error
    /\ UNCHANGED <<users, chat_sessions, savers, runs, frames, settings, impl, user_query, subscription_tier, requested_model, micro_prompts,
                   tasks, responses, llm_responses, models_used, aggregated_response,
                   status, chat_history, save_calls, res>>

\* _llm_caller_node up to the await of asyncio.gather.
LlmCallerDispatch ==
    /\ impl = "agent" /\ pc = "llm_caller"
    /\ tasks' = AgentTasks(model_assignments, micro_prompts)
    /\ pc' = "gather"
    /\ UNCHANGED <<users, chat_sessions, savers, runs, frames, settings, impl, user_query, subscription_tier, requested_model, micro_prompts,
                   model_assignments, responses, llm_responses, models_used,
                   aggregated_response, status, error, chat_history, save_calls, res>>

\* Mutant: the node also drops the assignments it skipped from the state.
LlmCallerJoin_Prunes ==
    /\ impl = "agent" /\ pc = "gather"
    /\ AllDone(tasks)
    /\ responses' = GatherResults(tasks)
    /\ llm_responses' = ZipResponses(model_assignments, GatherResults(tasks), micro_prompts)
    /\ models_used' = AgentModelsUsed(model_assignments)
    /\ model_assignments' =
            SelectSeq(model_assignments, LAMBDA a : InSeq(a.prompt, micro_prompts))
    /\ pc' = NextNode("llm_caller")
    /\ UNCHANGED <<users, chat_sessions, savers, runs, frames, settings, impl, user_query, subscription_tier, requested_model, micro_prompts,
                   tasks, aggregated_response, status, error, chat_history, save_calls, res>>

\* _llm_caller_node after the gather: llm_responses and models_used.
LlmCallerJoin ==
    /\ impl = "agent" /\ pc = "gather"
    /\ AllDone(tasks)
    /\ responses' = GatherResults(tasks)
    /\ llm_responses' = ZipResponses(model_assignments, GatherResults(tasks), micro_prompts)
    /\ models_used' = AgentModelsUsed(model_assignments)
    /\ pc' = NextNode("llm_caller")
    /\ UNCHANGED <<users, chat_sessions, savers, runs, frames, settings, impl, user_query, subscription_tier, requested_model, micro_prompts,
                   model_assignments, tasks, aggregated_response, status, error,
                   chat_history, save_calls, res>>

\* _linkage_agent, then END: run() returns the final state.
Linkage ==
    /\ impl = "agent" /\ pc = "linker"
    /\ aggregated_response' =
            <<Synthesis(IF is_code_task(user_query) THEN "code_linkage"
                        ELSE "generic_linkage")>>
    /\ res' = <<[query |-> user_query, Models |-> models_used,
                 response |-> aggregated_response']>>
    /\ pc' = NextNode("linker")
    /\ UNCHANGED <<users, chat_sessions, savers, runs, frames, settings, impl, user_query, subscription_tier, requested_model, micro_prompts,
                   model_assignments, tasks, responses, llm_responses, models_used,
                   status, error, chat_history, save_calls>>

Next ==
    \/ ValidateAccess
    \/ RouteEmpty
    \/ RouteNoModels
    \/ RouteDispatch
    \/ CallReturns
    \/ RouterJoin
    \/ SaveAndRespond
    \/ SaveFails
    \/ NodeRaises
    \/ PromptBreaker
    \/ ResearchParsed
    \/ ResearchFallback
    \/ LlmCallerDispatch
    \/ LlmCallerJoin
    \/ Linkage

Spec == Init /\ [][Next]_vars

\* The same request handling with MODEL_CONFIG taken from the environment.
InitEnv == InitWith("env")

SpecEnv == InitEnv /\ [][Next]_vars

\* A run of LangGraphAgent at its linker: the prompt breaker returned no prompt,
\* so nothing was assigned or dispatched.
InitLinker ==
    /\ settings = "default"
    /\ impl = "agent"
    /\ user_query \in LinkerQueries
    /\ subscription_tier \in {"free", "pro"}
    /\ requested_model = "auto"
    /\ pc = "linker"
    /\ micro_prompts = <<>>
    /\ model_assignments = <<>>
    /\ tasks = <<>>
    /\ responses = <<>>
    /\ llm_responses = <<>>
    /\ models_used = <<>>
    /\ aggregated_response = <<>>
    /\ status = 0
    /\ error = "none"
    /\ chat_history = <<>>
    /\ save_calls = <<>>
    /\ res = <<>>
    /\ users = <<>>
    /\ chat_sessions = <<>>
    /\ savers = <<>>
    /\ runs = <<>>
    /\ frames = <<>>

NextLinker == Linkage \/ NodeRaises

SpecLinker == InitLinker /\ [][NextLinker]_vars

\* The runs of LangGraphAgent in which the research agent's output text holds no
\* JSON object that parses.
InitFallback == Init /\ impl = "agent"

NextFallback ==
    \/ NodeRaises
    \/ PromptBreaker
    \/ ResearchFallback
    \/ LlmCallerDispatch
    \/ CallReturns
    \/ LlmCallerJoin
    \/ Linkage

SpecFallback == InitFallback /\ [][NextFallback]_vars

\* route_and_process_prompts called on its own, for any query, tier and model,
\* and followed up to its return, its raise or its await of the gather.
InitRoute ==
    /\ settings = "default"
    /\ impl = "router"
    /\ user_query \in SplitQueries
    /\ subscription_tier \in {"free", "trial"}
    /\ requested_model \in {"auto", "mistral-7b", "gpt-5"}
    /\ pc = "route"
    /\ micro_prompts = <<>>
    /\ model_assignments = <<>>
    /\ tasks = <<>>
    /\ responses = <<>>
    /\ llm_responses = <<>>
    /\ models_used = <<>>
    /\ aggregated_response = <<>>
    /\ status = 0
    /\ error = "none"
    /\ chat_history = <<>>
    /\ save_calls = <<>>
    /\ res = <<>>
    /\ users = <<>>
    /\ chat_sessions = <<>>
    /\ savers = <<>>
    /\ runs = <<>>
    /\ frames = <<>>

NextRoute == RouteEmpty \/ RouteNoModels \/ RouteKeyError \/ RouteDispatch

SpecRoute == InitRoute /\ [][NextRoute]_vars

----------------------------------------------------------------------------
(* Two /chat requests served concurrently by one event loop *)

Requests == {1, 2}

PairQueries == {<<"a", ".">>, <<"b", "?", " ", "a", ".">>}

NewRun(q, t, m) ==
    [user_query |-> q, subscription_tier |-> t, requested_model |-> m,
     pc |-> "validate", status |-> 0, res |-> <<>>]

\* prompts, models_used, tasks and aggregated_response before their assignment.
EmptyFrame ==
    [prompts |-> <<>>, models_used |-> <<>>, tasks |-> <<>>, aggregated_response |-> <<>>]

\* Mutant: the locals are kept in one place shared by all invocations.
FrameOf_Shared(r) == 1

\* Each invocation of the coroutine has its own locals.
FrameOf(r) == r

InitPair ==
    /\ settings = "default"
    /\ impl = "pair"
    /\ user_query = <<>>
    /\ subscription_tier = "free"
    /\ requested_model = "auto"
    /\ pc = "done"
    /\ micro_prompts = <<>>
    /\ model_assignments = <<>>
    /\ tasks = <<>>
    /\ responses = <<>>
    /\ llm_responses = <<>>
    /\ models_used = <<>>
    /\ aggregated_response = <<>>
    /\ status = 0
    /\ error = "none"
    /\ chat_history = <<>>
    /\ save_calls = <<>>
    /\ res = <<>>
    /\ users = <<>>
    /\ chat_sessions = <<>>
    /\ savers = <<>>
    /\ runs \in [Requests -> {NewRun(q, t, m) : q \in PairQueries, t \in {"free", "pro"},
                                                m \in {"auto", "gpt-4-o"}}]
    /\ frames = [r \in Requests |-> EmptyFrame]

\* process_chat of request r, step 2.
PairValidate(r) ==
    /\ runs[r].pc = "validate"
    /\ LET v == IF runs[r].requested_model # "auto"
                THEN validate_model_access(runs[r].requested_model,
                                           runs[r].subscription_tier)
                ELSE "ok"
       IN  runs' = [runs EXCEPT ![r].pc = IF v = "ok" THEN "route" ELSE "done",
                               ![r].status = IF v = "ok" THEN 0 ELSE AccessStatus(v)]
    /\ UNCHANGED <<users, chat_sessions, savers, frames, settings, impl, user_query, subscription_tier, requested_model, pc,
                   micro_prompts, model_assignments, tasks, responses, llm_responses,
                   models_used, aggregated_response, status, error, chat_history,
                   save_calls, res>>

\* route_and_process_prompts of request r up to the await of asyncio.gather, or
\* to its early return or raise.
PairRoute(r) ==
    /\ runs[r].pc = "route"
    /\ LET prompts == split_prompt(runs[r].user_query)
           allowed_models == _get_available_models_for_sub(runs[r].subscription_tier)
           models  == RouterModels(prompts, runs[r].requested_model,
                                   runs[r].subscription_tier)
       IN  IF prompts = <<>>
           THEN /\ frames' = [frames EXCEPT ![FrameOf(r)] =
                                [EmptyFrame EXCEPT !.aggregated_response = <<CouldNotProcess>>]]
                /\ runs' = [runs EXCEPT ![r].pc = "save"]
           ELSE IF runs[r].requested_model = "auto" /\ allowed_models = <<>>
           THEN /\ frames' = [frames EXCEPT ![FrameOf(r)] =
                                [EmptyFrame EXCEPT !.prompts = prompts]]
                /\ runs' = [runs EXCEPT ![r].pc = "done",
                                        ![r].status = HTTP_500_INTERNAL_SERVER_ERROR]
           ELSE /\ frames' = [frames EXCEPT ![FrameOf(r)] =
                                [prompts |-> prompts,
                                 models_used |-> RouterModelsUsed(prompts, models),
                                 tasks |-> RouterTasks(prompts, models),
                                 aggregated_response |-> <<>>]]
                /\ runs' = [runs EXCEPT ![r].pc = "gather"]
    /\ UNCHANGED <<users, chat_sessions, savers, settings, impl, user_query, subscription_tier, requested_model, pc,
                   micro_prompts, model_assignments, tasks, responses, llm_responses,
                   models_used, aggregated_response, status, error, chat_history,
                   save_calls, res>>

\* One awaitable of request r's gather completes.
PairCallReturns(r) ==
    /\ runs[r].pc = "gather"
    /\ LET ts == frames[FrameOf(r)].tasks
       IN  \E i \in 1..Len(ts) : \E outcome \in Outcomes(ts[i]) :
              /\ ts[i].result.kind = "none"
              /\ frames' = [frames EXCEPT
                              ![FrameOf(r)].tasks[i].result = CallResult(ts[i], i, outcome)]
    /\ UNCHANGED <<users, chat_sessions, savers, runs, settings, impl, user_query, subscription_tier, requested_model, pc,
                   micro_prompts, model_assignments, tasks, responses, llm_responses,
                   models_used, aggregated_response, status, error, chat_history,
                   save_calls, res>>

\* Request r's gather returns and its responses are joined.
PairJoin(r) ==
    /\ runs[r].pc = "gather"
    /\ AllDone(frames[FrameOf(r)].tasks)
    /\ frames' = [frames EXCEPT ![FrameOf(r)].aggregated_response =
                        JoinNonEmpty(GatherResults(frames[FrameOf(r)].tasks))]
    /\ runs' = [runs EXCEPT ![r].pc = "save"]
    /\ UNCHANGED <<users, chat_sessions, savers, settings, impl, user_query, subscription_tier, requested_model, pc,
                   micro_prompts, model_assignments, tasks, responses, llm_responses,
                   models_used, aggregated_response, status, error, chat_history,
                   save_calls, res>>

\* process_chat of request r, steps 4 and 5: save_chat_history, then Res(...), or
\* the HTTPException of a failed save.
PairSave(r) ==
    /\ runs[r].pc = "save"
    /\ \E saved \in BOOLEAN :
        runs' = [runs EXCEPT
                    ![r].pc = "done",
                    ![r].status = IF saved THEN HTTP_200_OK
                                  ELSE HTTP_500_INTERNAL_SERVER_ERROR,
                    ![r].res = IF saved
                               THEN <<[query |-> runs[r].user_query,
                                       Models |-> frames[FrameOf(r)].models_used,
                                       response |-> frames[FrameOf(r)].aggregated_response]>>
                               ELSE <<>>]
    /\ UNCHANGED <<users, chat_sessions, savers, frames, settings, impl, user_query, subscription_tier, requested_model, pc,
                   micro_prompts, model_assignments, tasks, responses, llm_responses,
                   models_used, aggregated_response, status, error, chat_history,
                   save_calls, res>>

NextPair ==
    \/ \E r \in Requests : PairValidate(r)
    \/ \E r \in Requests : PairRoute(r)
    \/ \E r \in Requests : PairCallReturns(r)
    \/ \E r \in Requests : PairJoin(r)
    \/ \E r \in Requests : PairSave(r)

SpecPair == InitPair /\ [][NextPair]_vars

----------------------------------------------------------------------------
(* Two save_chat_history calls on the shared tables.  Every call of the      *)
(* database client (select(...).execute(), insert(...).execute()) is one     *)
(* step; the client is synchronous, so the steps of two calls interleave     *)
(* when the calls are served by different worker processes of the            *)
(* application, which share nothing but the database.                        *)

Savers == {1, 2}

Emails == {"u@x", "v@x"}

ChatIds == {"c1", "c2"}

\* A call at its entry: its arguments and the local "user" (<<>> until bound).
\* req_id is a fresh uuid4 per request: the number of the call.
NewSaver(e, ch) == [pc |-> "get_user", email |-> e, chat_id |-> ch, user |-> <<>>]

\* The table holds no session yet (every chat_id is new); the user "u@x" may
\* have a row from an earlier request, with id 0.
InitSave ==
    /\ settings = "default"
    /\ impl = "save"
    /\ user_query = <<>>
    /\ subscription_tier = "free"
    /\ requested_model = "auto"
    /\ pc = "done"
    /\ micro_prompts = <<>>
    /\ model_assignments = <<>>
    /\ tasks = <<>>
    /\ responses = <<>>
    /\ llm_responses = <<>>
    /\ models_used = <<>>
    /\ aggregated_response = <<>>
    /\ status = 0
    /\ error = "none"
    /\ chat_history = <<>>
    /\ save_calls = <<>>
    /\ res = <<>>
    /\ runs = <<>>
    /\ frames = <<>>
    /\ users \in {<<>>, <<[id |-> 0, email |-> "u@x"]>>}
    /\ chat_sessions = <<>>
    /\ savers \in [Savers -> {NewSaver(e, ch) : e \in Emails, ch \in ChatIds}]

\* get_user_by_email: select("*").eq("email", email).limit(1); the row it
\* returns is any row with that email (no order is asked for), None if none.
\* find_or_create_user_and_session then tests "if not user".
GetUser(c) ==
    /\ impl = "save" /\ savers[c].pc = "get_user"
    /\ LET found == {i \in DOMAIN users : users[i].email = savers[c].email}
       IN  IF found = {}
           THEN savers' = [savers EXCEPT ![c].pc = "insert_user"]
           ELSE \E i \in found :
                    savers' = [savers EXCEPT ![c].user = <<users[i]>>,
                                             ![c].pc = "select_session"]
    /\ UNCHANGED <<users, chat_sessions, runs, frames, settings, impl, user_query,
                   subscription_tier, requested_model, pc, micro_prompts,
                   model_assignments, tasks, responses, llm_responses, models_used,
                   aggregated_response, status, error, chat_history, save_calls, res>>

\* get_user_by_email: except APIError: return None.  The caller takes the None
\* for "no such user".
GetUserApiError(c) ==
    /\ impl = "save" /\ savers[c].pc = "get_user"
    /\ savers' = [savers EXCEPT ![c].pc = "insert_user"]
    /\ UNCHANGED <<users, chat_sessions, runs, frames, settings, impl, user_query,
                   subscription_tier, requested_model, pc, micro_prompts,
                   model_assignments, tasks, responses, llm_responses, models_used,
                   aggregated_response, status, error, chat_history, save_calls, res>>

\* self.client.table("users").insert({"email": email}).execute();
\* user = insert_resp.data[0].  The id is generated by the database: the row a
\* call inserts carries the number of the call.
InsertUser(c) ==
    /\ impl = "save" /\ savers[c].pc = "insert_user"
    /\ LET row == [id |-> c, email |-> savers[c].email]
       IN  /\ users' = Append(users, row)
           /\ savers' = [savers EXCEPT ![c].user = <<row>>, ![c].pc = "select_session"]
    /\ UNCHANGED <<chat_sessions, runs, frames, settings, impl, user_query,
                   subscription_tier, requested_model, pc, micro_prompts,
                   model_assignments, tasks, responses, llm_responses, models_used,
                   aggregated_response, status, error, chat_history, save_calls, res>>

\* table("chat_sessions").select("id").eq("id", chat_id).eq("user_id", user_id);
\* "if not session_response.data" decides whether the session is inserted.
SelectSession(c) ==
    /\ impl = "save" /\ savers[c].pc = "select_session"
    /\ LET user_id == savers[c].user[1].id
           data == {i \in DOMAIN chat_sessions :
                        /\ chat_sessions[i].id = savers[c].chat_id
                        /\ chat_sessions[i].user_id = user_id}
       IN  savers' = [savers EXCEPT ![c].pc = IF data = {} THEN "insert_session"
                                                          ELSE "insert_history"]
    /\ UNCHANGED <<users, chat_sessions, runs, frames, settings, impl, user_query,
                   subscription_tier, requested_model, pc, micro_prompts,
                   model_assignments, tasks, responses, llm_responses, models_used,
                   aggregated_response, status, error, chat_history, save_calls, res>>

\* table("chat_sessions").insert({"id": chat_id, "user_id": user_id}).execute()
InsertSession(c) ==
    /\ impl = "save" /\ savers[c].pc = "insert_session"
    /\ chat_sessions' = Append(chat_sessions, [id |-> savers[c].chat_id,
                                                user_id |-> savers[c].user[1].id])
    /\ savers' = [savers EXCEPT ![c].pc = "insert_history"]
    /\ UNCHANGED <<users, runs, frames, settings, impl, user_query,
                   subscription_tier, requested_model, pc, micro_prompts,
                   model_assignments, tasks, responses, llm_responses, models_used,
                   aggregated_response, status, error, chat_history, save_calls, res>>

\* save_chat_history: table("chat_history").insert({"id": req_id,
\* "session_id": chat_id, ...}).execute(), after find_or_create_user_and_session
\* has returned.
InsertHistory(c) ==
    /\ impl = "save" /\ savers[c].pc = "insert_history"
    /\ chat_history' = Append(chat_history, [id |-> c, session_id |-> savers[c].chat_id])
    /\ savers' = [savers EXCEPT ![c].pc = "done"]
    /\ UNCHANGED <<users, chat_sessions, runs, frames, settings, impl, user_query,
                   subscription_tier, requested_model, pc, micro_prompts,
                   model_assignments, tasks, responses, llm_responses, models_used,
                   aggregated_response, status, error, save_calls, res>>

\* A database call other than the user select raises, or the user insert
\* returns no data: the call ends with HTTPException(500) and writes no row.
SaveRaises(c) ==
    /\ impl = "save"
    /\ savers[c].pc \in {"insert_user", "select_session", "insert_session",
                         "insert_history"}
    /\ savers' = [savers EXCEPT ![c].pc = "failed"]
    /\ UNCHANGED <<users, chat_sessions, runs, frames, settings, impl, user_query,
                   subscription_tier, requested_model, pc, micro_prompts,
                   model_assignments, tasks, responses, llm_responses, models_used,
                   aggregated_response, status, error, chat_history, save_calls, res>>

NextSave ==
    \/ \E c \in Savers : GetUser(c)
    \/ \E c \in Savers : GetUserApiError(c)
    \/ \E c \in Savers : InsertUser(c)
    \/ \E c \in Savers : SelectSession(c)
    \/ \E c \in Savers : InsertSession(c)
    \/ \E c \in Savers : InsertHistory(c)
    \/ \E c \in Savers : SaveRaises(c)

SpecSave == InitSave /\ [][NextSave]_vars

----------------------------------------------------------------------------
(* Properties *)

\* The access policy read off MODEL_CONFIG.
Known(m) == m \in ModelNames

Allowed(m, t) == Known(m) /\ t \in MODEL_CONFIG[m].allowed_subs

EligibleInOrder(t) == SelectSeq(ModelOrder, LAMBDA m : Allowed(m, t))

ExpectedCall(m) ==
    CASE MODEL_CONFIG[m].provider = "openai" -> "call_openai"
      [] MODEL_CONFIG[m].provider = "huggingface" -> "call_huggingface"
      [] MODEL_CONFIG[m].provider = "local" -> "call_local"

Denied == impl = "router" /\ requested_model # "auto"
            /\ ~Allowed(requested_model, subscription_tier)

\* The router's dispatch has been built.
Dispatched == impl = "router" /\ pc \in {"gather", "save", "done"} /\ micro_prompts # <<>>
                /\ error # "no_models"

\* The gather has returned.
Joined == \/ impl = "router" /\ pc \in {"save", "done"} /\ tasks # <<>>
          \/ impl = "agent" /\ pc \in {"linker", "END"}

\* C1: a /chat request for a specific model that the access check refuses ends
\* with the 404 (unknown model) or 403 (tier not allowed) rejection, and at no
\* point of its run is a provider call issued or save_chat_history called.
C1_RejectedBeforeAnyWork ==
    Denied =>
        /\ pc \in {"validate", "done"}
        /\ tasks = <<>> /\ models_used = <<>> /\ chat_history = <<>> /\ res = <<>>
        /\ pc = "done" =>
              status = (IF Known(requested_model) THEN HTTP_403_FORBIDDEN
                        ELSE HTTP_404_NOT_FOUND)

C1_Witness ==
    /\ Denied /\ pc = "done" /\ status = HTTP_403_FORBIDDEN
    /\ requested_model = "gpt-4-o" /\ subscription_tier = "free"

\* C2: on the /chat path every model recorded in models_used, and so every model
\* a provider call is issued for, is a key of MODEL_CONFIG whose allowed_subs
\* holds the caller's tier, with "auto" and with a specific requested model.
C2_AssignedModelsAllowed ==
    impl = "router" =>
        /\ \A i \in 1..Len(models_used) : Allowed(models_used[i].model, subscription_tier)
        /\ Len(tasks) = Len(models_used)
        /\ \A i \in 1..Len(tasks) : tasks[i].fn = ExpectedCall(models_used[i].model)

C2_Witness ==
    /\ impl = "router" /\ pc = "done" /\ status = HTTP_200_OK
    /\ requested_model = "auto" /\ subscription_tier = "pro"
    /\ Len(models_used) >= 2

\* C3: validate_model_access(M, T) raises 404 exactly when M is not in
\* MODEL_CONFIG, raises 403 exactly when M is there and T is not in its
\* allowed_subs, returns otherwise, and leaves the request's state as it was.
C3_ValidateModelAccess ==
    (impl = "router" /\ requested_model # "auto" /\ pc # "validate") =>
        /\ (error = "not_found" /\ status = HTTP_404_NOT_FOUND) <=> ~Known(requested_model)
        /\ (error = "forbidden" /\ status = HTTP_403_FORBIDDEN)
              <=> (Known(requested_model) /\ ~Allowed(requested_model, subscription_tier))
        /\ (pc = "route" \/ error \in {"not_found", "forbidden"}) =>
              /\ micro_prompts = <<>> /\ tasks = <<>> /\ responses = <<>>
              /\ models_used = <<>> /\ aggregated_response = <<>>
              /\ chat_history = <<>> /\ res = <<>>
        /\ pc = "route" => (status = 0 /\ error = "none")

C3_Witness ==
    /\ impl = "router" /\ pc = "done" /\ requested_model = "gpt-5"
    /\ error = "not_found" /\ status = HTTP_404_NOT_FOUND

\* C4: with requested_model "auto" and K >= 1 eligible models (in MODEL_CONFIG
\* order), micro-prompt i (from 0) is assigned eligible[i mod K] and the call
\* issued for it is the interface function of that model's provider.
C4_RoundRobin ==
    (Dispatched /\ requested_model = "auto") =>
        LET eligible == EligibleInOrder(subscription_tier)
            K == Len(eligible)
        IN  /\ K >= 1
            /\ Len(models_used) = Len(micro_prompts)
            /\ Len(tasks) = Len(micro_prompts)
            /\ \A n \in 1..Len(micro_prompts) :
                  /\ models_used[n] = [micro_prompt |-> micro_prompts[n],
                                       model |-> eligible[((n - 1) % K) + 1]]
                  /\ tasks[n].prompt = micro_prompts[n]
                  /\ tasks[n].fn = ExpectedCall(eligible[((n - 1) % K) + 1])

C4_Witness ==
    /\ Dispatched /\ requested_model = "auto" /\ subscription_tier = "enterprise"
    /\ Len(micro_prompts) = 4
    /\ models_used[4].model = "gpt-4-o" /\ tasks[4].fn = "call_openai"
    /\ models_used[3].model = "llama3-8b-local"

\* C5 as stated: for every query and tier, route_and_process_prompts with "auto"
\* raises the no-eligible-models error if and only if no model is eligible.
C5_Original ==
    (impl = "router" /\ requested_model = "auto" /\ pc \notin {"validate", "route"}) =>
        (error = "no_models" <=> EligibleInOrder(subscription_tier) = <<>>)

\* C5 amended: with "auto", the no-eligible-models error is raised if and only
\* if no model is eligible and the query splits into at least one micro-prompt;
\* a query with no micro-prompt returns "Could not process the query." with an
\* empty usage list for every tier.
C5_NoEligibleModels ==
    (impl = "router" /\ requested_model = "auto" /\ pc \notin {"validate", "route"}) =>
        /\ error = "no_models" <=>
              (EligibleInOrder(subscription_tier) = <<>> /\ micro_prompts # <<>>)
        /\ error = "no_models" =>
              (status = HTTP_500_INTERNAL_SERVER_ERROR /\ tasks = <<>> /\ pc = "done")
        /\ micro_prompts = <<>> =>
              (aggregated_response = <<CouldNotProcess>> /\ models_used = <<>>)

C5_Witness ==
    /\ impl = "router" /\ requested_model = "auto" /\ subscription_tier = "trial"
    /\ error = "no_models" /\ pc = "done" /\ micro_prompts # <<>>

\* C6: with a specific requested model that passed the access check, models_used
\* has one entry per micro-prompt, each naming the requested model, and each
\* provider call is the interface function of that model's provider.
C6_RequestedModelForAll ==
    (Dispatched /\ requested_model # "auto") =>
        /\ Allowed(requested_model, subscription_tier)
        /\ Len(models_used) = Len(micro_prompts)
        /\ Len(tasks) = Len(micro_prompts)
        /\ \A n \in 1..Len(micro_prompts) :
              /\ models_used[n] = [micro_prompt |-> micro_prompts[n],
                                   model |-> requested_model]
              /\ tasks[n].prompt = micro_prompts[n]
              /\ tasks[n].fn = ExpectedCall(requested_model)

C6_Witness ==
    /\ Dispatched /\ requested_model = "llama3-8b-local" /\ pc = "done"
    /\ Len(models_used) = 3 /\ tasks[3].fn = "call_local"

Count(s, P(_)) == Len(SelectSeq(s, P))

\* C7 as stated: in both dispatch implementations, after dispatch every
\* micro-prompt that is a key of the assignment has exactly one execution
\* result, and there are at least as many results as calls dispatched.
C7_EveryAssignedPromptHasOneResult ==
    Joined =>
        IF impl = "router"
        THEN Len(responses) = Len(models_used) /\ Len(responses) = Len(tasks)
        ELSE /\ \A k \in 1..Len(model_assignments) :
                    InSeq(model_assignments[k].prompt, micro_prompts) =>
                        Count(llm_responses,
                              LAMBDA e : e.prompt = model_assignments[k].prompt) = 1
             /\ Len(llm_responses) >= Len(tasks)

\* The result r is what the call invoked with prompt p returned.
OwnResult(r, p) ==
    /\ r.kind # "none"
    /\ r.kind = "text" => r.prompt = p
    /\ r.call # 0 => (r.call \in 1..Len(tasks) /\ tasks[r.call].prompt = p
                        /\ tasks[r.call].result = r)

\* C8 as stated: for every assignment, stale keys included, and every
\* completion order, the result stored under micro-prompt p is the text
\* returned by the call that was invoked with p.
C8_ResultsKeyedByOwnPrompt ==
    Joined =>
        IF impl = "router"
        THEN \A n \in 1..Len(responses) : OwnResult(responses[n], micro_prompts[n])
        ELSE \A k \in 1..Len(llm_responses) :
                OwnResult(llm_responses[k].response, llm_responses[k].prompt)

Pending == \E i \in 1..Len(tasks) : tasks[i].result.kind = "none"

\* C9: while a provider call of the request is pending, the request is still at
\* the gather: nothing is aggregated, saved or returned; once the gather has
\* returned, responses holds the result of every call, in list order.
C9_JoinBarrier ==
    /\ Pending =>
          /\ pc = "gather"
          /\ responses = <<>> /\ llm_responses = <<>> /\ aggregated_response = <<>>
          /\ chat_history = <<>> /\ res = <<>> /\ status = 0
    /\ Joined =>
          /\ Len(responses) = Len(tasks)
          /\ \A i \in 1..Len(tasks) : responses[i] = tasks[i].result

C9_Witness ==
    /\ Joined /\ Len(tasks) >= 2 /\ ~Pending
    /\ pc = "done" /\ status = HTTP_200_OK /\ res # <<>>

\* C10: when the backend invocation of some of the provider calls raises, each
\* such call returns its own error text, every other call returns its own
\* result, and the gather returns all of them without raising: on the /chat
\* path response n belongs to micro-prompt n.
C10_FailureIsolation ==
    Joined =>
        /\ pc \in {"save", "linker"} => error = "none"
        /\ Len(responses) = Len(tasks)
        /\ \A i \in 1..Len(tasks) :
              /\ responses[i].kind \in {"text", "empty", "error", "unknown_provider"}
              /\ responses[i].kind = "error" =>
                    responses[i] = [kind |-> "error", call |-> i, fn |-> tasks[i].fn,
                                    prompt |-> <<>>, model |-> ""]
              /\ responses[i].kind = "text" =>
                    (responses[i].call = i /\ responses[i].prompt = tasks[i].prompt)
        /\ impl = "router" =>
              /\ Len(responses) = Len(micro_prompts)
              /\ \A n \in 1..Len(micro_prompts) : tasks[n].prompt = micro_prompts[n]

C10_Witness ==
    /\ impl = "router" /\ pc = "done" /\ status = HTTP_200_OK
    /\ Len(responses) = 3
    /\ responses[1].kind = "error" /\ responses[2].kind = "text"
    /\ responses[3].kind = "error"

\* The providers the dispatch code has an interface function for.
KnownProviders == {"openai", "huggingface", "local"}

UnknownProvider(m) == ~Known(m) \/ MODEL_CONFIG[m].provider \notin KnownProviders

\* The model each awaitable of the gather list was built for, in list order.
TaskModels ==
    IF impl = "router"
    THEN [i \in 1..Len(models_used) |-> models_used[i].model]
    ELSE LET live == SelectSeq(model_assignments, LAMBDA a : InSeq(a.prompt, micro_prompts))
         IN  [i \in 1..Len(live) |-> live[i].model]

\* C11 as stated: in both dispatch implementations, a micro-prompt whose model
\* has a provider other than openai / huggingface / local (or is not a key of
\* MODEL_CONFIG) gets no provider call; its result is the text "Error: Unknown
\* provider for <model>", and the request goes on to synthesis with it.
C11_UnknownProviderText ==
    (tasks # <<>> /\ Len(TaskModels) = Len(tasks)) =>
        \A i \in 1..Len(tasks) :
            UnknownProvider(TaskModels[i]) =>
                /\ tasks[i].fn = "sleep"
                /\ tasks[i].result.kind \in {"none", "unknown_provider"}
                /\ tasks[i].result.kind = "unknown_provider" =>
                      tasks[i].result.model = TaskModels[i]

\* C12 as stated: every model name in the model_assignments the researcher
\* returns, parsed from the agent's output or built by the fallback, is a model
\* eligible for the caller's tier.
C12_AssignmentsEligible ==
    (impl = "agent" /\ pc \in {"llm_caller", "gather", "linker", "END"}) =>
        \A k \in 1..Len(model_assignments) :
            Allowed(model_assignments[k].model, subscription_tier)

\* The place of a position of LangGraphAgent.run in the order of its stages; the
\* gather is inside the llm_caller.
StageRank(p) ==
    CASE p = "prompt_breaker" -> 1
      [] p = "researcher" -> 2
      [] p \in {"llm_caller", "gather"} -> 3
      [] p = "linker" -> 4
      [] p = "END" -> 5
      [] p = "failed" -> 6

\* C13: a run of LangGraphAgent goes through prompt_breaker, researcher,
\* llm_caller, linker and END in that order: every step stays in its stage or
\* enters the next one (or ends the run with the exception raised), so a stage
\* starts only when its predecessor has completed, runs at most once, and is
\* never gone back to; a stage's output is empty until that stage has run.
C13_PipelineOrder ==
    /\ [](impl = "agent" =>
            /\ pc = "prompt_breaker" => micro_prompts = <<>>
            /\ pc \in {"prompt_breaker", "researcher"} =>
                  (model_assignments = <<>> /\ tasks = <<>>)
            /\ pc \in {"prompt_breaker", "researcher", "llm_caller", "gather"} =>
                  (llm_responses = <<>> /\ models_used = <<>>)
            /\ pc # "END" => (aggregated_response = <<>> /\ res = <<>>))
    /\ [][impl = "agent" =>
            \/ pc' = pc
            \/ pc = "llm_caller" /\ pc' = "gather"
            \/ pc # "llm_caller" /\ pc \notin {"END", "failed"}
                  /\ StageRank(pc') = StageRank(pc) + 1
            \/ pc \in {"prompt_breaker", "researcher", "linker"} /\ pc' = "failed"]_vars

C13_Witness ==
    /\ impl = "agent" /\ pc = "END" /\ error = "none"
    /\ micro_prompts # <<>> /\ model_assignments # <<>> /\ llm_responses # <<>>
    /\ aggregated_response # <<>>

C15_RunStateMonotone ==
    [][impl = "agent" =>
        /\ UNCHANGED <<user_query, subscription_tier, requested_model>>
        /\ micro_prompts' # micro_prompts => pc = "prompt_breaker"
        /\ model_assignments' # model_assignments => pc = "researcher"
        /\ (llm_responses' # llm_responses \/ models_used' # models_used) =>
              (pc = "gather" /\ pc' = "linker")
        /\ aggregated_response' # aggregated_response => pc = "linker"]_vars

C15_Witness ==
    /\ impl = "agent" /\ pc = "END"
    /\ Len(micro_prompts) = 2 /\ Len(model_assignments) = 3
    /\ \E k \in 1..3 : model_assignments[k].prompt = StalePrompt

\* C16 as stated: when routing and synthesis of a /chat request succeeded and
\* save_chat_history fails, the caller still receives the answer (aggregated
\* response and Models), the persistence failure being reported beside it.
C16_AnswerSurvivesSaveFailure ==
    (impl = "router" /\ error = "save_failed") =>
        res = <<[query |-> user_query, Models |-> models_used,
                 response |-> aggregated_response]>>

\* C17: in a /chat request save_chat_history is invoked at most once, only after
\* route_and_process_prompts has returned, with exactly the query, aggregated
\* response and models_used that are returned to the caller; a request that
\* returns a success response has invoked it exactly once.
C17_SavedOnceAfterSynthesis ==
    impl = "router" =>
        /\ Len(save_calls) <= 1
        /\ pc \in {"validate", "route", "gather", "save"} => save_calls = <<>>
        /\ error \in {"not_found", "forbidden", "no_models"} => save_calls = <<>>
        /\ save_calls # <<>> =>
              /\ ~Pending
              /\ save_calls[1].query = user_query
              /\ save_calls[1].response = aggregated_response
              /\ save_calls[1].models_used = models_used
        /\ status = HTTP_200_OK =>
              /\ Len(save_calls) = 1
              /\ res = <<[query |-> save_calls[1].query,
                          Models |-> save_calls[1].models_used,
                          response |-> save_calls[1].response]>>

C17_Witness ==
    /\ impl = "router" /\ status = HTTP_200_OK /\ Len(save_calls) = 1
    /\ Len(save_calls[1].models_used) = 2 /\ save_calls[1].response # <<>>

\* C19 as stated: when the synthesis call of the linker raises, the run does not
\* fail: the final answer is the concatenation of the collected results.
C19_SynthesisFallback ==
    (impl = "agent" /\ error = "linker_error") =>
        /\ pc = "END"
        /\ aggregated_response = [i \in 1..Len(llm_responses) |-> llm_responses[i].response]
        /\ res # <<>>

\* c is the letter k, in either case.
SameLetter(c, k) ==
    c = k \/ <<c, k>> \in {<<"H", "h">>, <<"T", "t">>, <<"M", "m">>, <<"L", "l">>,
                            <<"C", "c">>, <<"S", "s">>, <<"J", "j">>}

\* kw occurs in q at some position, case ignored.
Occurs(kw, q) ==
    \E i \in 1..(Len(q) - Len(kw) + 1) :
        \A j \in 1..Len(kw) : SameLetter(q[i + j - 1], kw[j])

\* C20: the linker invokes the code-assembly chain if and only if the
\* lower-cased query contains "html", "css" and "js", the generic chain in every
\* other case, and exactly one of the two in a run that reaches END (none
\* before the linker has run).
C20_StrategySelection ==
    impl = "agent" =>
        /\ pc = "END" =>
              /\ Len(aggregated_response) = 1
              /\ aggregated_response[1].kind \in {"code_linkage", "generic_linkage"}
              /\ aggregated_response[1].kind = "code_linkage" <=>
                    /\ Occurs(<<"h", "t", "m", "l">>, user_query)
                    /\ Occurs(<<"c", "s", "s">>, user_query)
                    /\ Occurs(<<"j", "s">>, user_query)
        /\ pc # "END" => aggregated_response = <<>>

C20_Witness ==
    /\ impl = "agent" /\ pc = "END"
    /\ user_query = <<"C", "s", "s", "J", "S", "H", "T", "M", "L">>
    /\ aggregated_response[1].kind = "code_linkage"

\* The models request run's micro-prompts are to be given, from its own tier
\* and requested model.
OwnModels(run, prompts) ==
    LET eligible == EligibleInOrder(run.subscription_tier)
    IN  [n \in 1..Len(prompts) |->
            IF run.requested_model = "auto"
            THEN eligible[((n - 1) % Len(eligible)) + 1]
            ELSE run.requested_model]

\* The locals f hold what run's own query, tier and requested model determine,
\* and results of calls made with its own micro-prompts.
OwnFrame(run, f) ==
    LET prompts == split_prompt(run.user_query)
    IN  IF run.pc \in {"validate", "route"}
             \/ run.status \in {HTTP_403_FORBIDDEN, HTTP_404_NOT_FOUND}
        THEN f = EmptyFrame /\ run.res = <<>>
        ELSE /\ f.prompts = prompts
             /\ f.models_used = [n \in 1..Len(prompts) |->
                                    [micro_prompt |-> prompts[n],
                                     model |-> OwnModels(run, prompts)[n]]]
             /\ Len(f.tasks) = Len(prompts)
             /\ \A n \in 1..Len(prompts) :
                    /\ f.tasks[n].prompt = prompts[n]
                    /\ f.tasks[n].fn = ExpectedCall(OwnModels(run, prompts)[n])
                    /\ f.tasks[n].result.kind = "text" =>
                          (f.tasks[n].result.prompt = prompts[n]
                              /\ f.tasks[n].result.call = n)
             /\ run.pc = "gather" => (f.aggregated_response = <<>> /\ run.res = <<>>)
             /\ run.pc \in {"save", "done"} =>
                    f.aggregated_response =
                        SelectSeq([n \in 1..Len(f.tasks) |-> f.tasks[n].result],
                                  LAMBDA x : x.kind # "empty")
             /\ run.status = HTTP_200_OK <=> run.res # <<>>
             /\ run.res # <<>> =>
                    run.res = <<[query |-> run.user_query, Models |-> f.models_used,
                                 response |-> f.aggregated_response]>>

\* C18: with two /chat requests interleaved in every possible way, each
\* request's micro-prompts, models_used, results and final response are those
\* its own query, tier and requested model (and the outcomes of its own calls)
\* determine; a step changes the run state of one request only, never a
\* request's arguments, and never MODEL_CONFIG.
C18_RequestIsolation ==
    /\ [](\A r \in Requests : OwnFrame(runs[r], frames[r]))
    /\ [][/\ settings' = settings
          /\ \A r \in Requests :
                /\ runs'[r].user_query = runs[r].user_query
                /\ runs'[r].subscription_tier = runs[r].subscription_tier
                /\ runs'[r].requested_model = runs[r].requested_model
                /\ (runs'[r] # runs[r] \/ frames'[r] # frames[r]) =>
                      \A o \in Requests \ {r} :
                          runs'[o] = runs[o] /\ frames'[o] = frames[o]]_vars

C18_Witness ==
    /\ impl = "pair"
    /\ runs[1].pc = "gather" /\ runs[2].pc = "done" /\ runs[2].status = HTTP_200_OK
    /\ runs[1].subscription_tier # runs[2].subscription_tier
    /\ Len(frames[1].tasks) = 2 /\ Len(frames[2].tasks) = 1
    /\ frames[1].tasks[1].result.kind = "text" /\ frames[1].tasks[2].result.kind = "none"
    /\ frames[2].tasks[1].result.kind = "text"

\* route_and_process_prompts has returned to process_chat.
RouteReturned ==
    impl = "router" /\ (pc = "save" \/ (pc = "done" /\ error \in {"none", "save_failed"}))

\* C21: the aggregated response of LLMRouter is made of the non-empty results,
\* each once, in micro-prompt order: it is determined by the results and their
\* places in the list, whatever order the calls completed in.
C21_JoinInPromptOrder ==
    (RouteReturned /\ tasks # <<>>) =>
        /\ \A j \in 1..Len(aggregated_response) :
              /\ aggregated_response[j].kind # "empty"
              /\ aggregated_response[j].call \in 1..Len(tasks)
              /\ aggregated_response[j] = tasks[aggregated_response[j].call].result
        /\ \A j, k \in 1..Len(aggregated_response) :
              j < k => aggregated_response[j].call < aggregated_response[k].call
        /\ Len(aggregated_response) =
              Cardinality({i \in 1..Len(tasks) : tasks[i].result.kind # "empty"})

C21_Witness ==
    /\ RouteReturned /\ Len(tasks) = 3
    /\ tasks[1].result.kind = "text" /\ tasks[2].result.kind = "empty"
    /\ tasks[3].result.kind = "error"
    /\ Len(aggregated_response) = 2

\* C22 as stated: when at least one micro-prompt was dispatched, every
\* micro-prompt is represented in the final text, by its result or by a
\* placeholder when the result is empty, so the answer is never blank.
C22_NoSilentLoss ==
    (RouteReturned /\ tasks # <<>>) =>
        /\ Len(aggregated_response) = Len(micro_prompts)
        /\ aggregated_response # <<>>

\* C26: when route_and_process_prompts returns, models_used has one entry per
\* micro-prompt, in micro-prompt order, entry i naming micro-prompt i and the
\* model whose provider call was issued for it; the Models list of the response
\* has as many entries as there are micro-prompts and gathered results.
C26_UsageMatchesWork ==
    RouteReturned =>
        /\ micro_prompts = split_prompt(user_query)
        /\ Len(models_used) = Len(micro_prompts)
        /\ Len(responses) = Len(micro_prompts)
        /\ Len(tasks) = Len(micro_prompts)
        /\ \A i \in 1..Len(micro_prompts) :
              /\ models_used[i].micro_prompt = micro_prompts[i]
              /\ tasks[i].prompt = micro_prompts[i]
              /\ tasks[i].fn = ExpectedCall(models_used[i].model)
        /\ res # <<>> => res[1].Models = models_used

C26_Witness ==
    /\ RouteReturned /\ subscription_tier = "free" /\ requested_model = "auto"
    /\ res # <<>> /\ Len(res[1].Models) = 2 /\ Len(responses) = 2
    /\ \A i \in 1..2 : res[1].Models[i].model = "mistral-7b"

\* C27: one provider call is issued for each micro-prompt of a /chat request;
\* once a call has returned, with a text or with an error text, it is never
\* issued again and no call is added, and the error text is the result used for
\* its micro-prompt.
C27_SingleAttempt ==
    /\ [](/\ Dispatched =>
               /\ Len(tasks) = Len(micro_prompts)
               /\ \A i \in 1..Len(tasks) : tasks[i].prompt = micro_prompts[i]
          /\ (RouteReturned /\ tasks # <<>>) =>
               \A i \in 1..Len(tasks) :
                   tasks[i].result.kind = "error" =>
                       (responses[i] = tasks[i].result
                           /\ InSeq(tasks[i].result, aggregated_response)))
    /\ [][tasks # <<>> =>
            /\ Len(tasks') = Len(tasks)
            /\ \A i \in 1..Len(tasks) :
                  /\ tasks'[i].prompt = tasks[i].prompt /\ tasks'[i].fn = tasks[i].fn
                  /\ tasks[i].result.kind # "none" => tasks'[i].result = tasks[i].result]_vars

C27_Witness ==
    /\ RouteReturned /\ pc = "done" /\ Len(tasks) = 2
    /\ tasks[1].result.kind = "error" /\ tasks[2].result.kind = "text"
    /\ aggregated_response[1] = tasks[1].result

Blank(c) == c \in {" ", "\t"}

AllBlank(q) == \A i \in 1..Len(q) : Blank(q[i])

\* The words of q: its maximal runs of characters that are not blank, in order.
RECURSIVE WordsFrom(_, _, _)
WordsFrom(q, i, cur) ==
    IF i > Len(q) THEN (IF cur = <<>> THEN <<>> ELSE <<cur>>)
    ELSE IF Blank(q[i])
         THEN (IF cur = <<>> THEN <<>> ELSE <<cur>>) \o WordsFrom(q, i + 1, <<>>)
         ELSE WordsFrom(q, i + 1, Append(cur, q[i]))

WordsOf(q) == WordsFrom(q, 1, <<>>)

\* C23: for the empty string and every whitespace-only string split_prompt
\* returns the empty sequence, and route_and_process_prompts then returns
\* "Could not process the query." with an empty usage list, raising nothing and
\* issuing no provider call, for any tier and requested model.
C23_EmptyDecomposition ==
    (impl = "router" /\ AllBlank(user_query)) =>
        /\ split_prompt(user_query) = <<>>
        /\ pc # "route" =>
              /\ pc = "save" /\ error = "none" /\ status = 0
              /\ micro_prompts = <<>> /\ tasks = <<>> /\ models_used = <<>>
              /\ aggregated_response = <<CouldNotProcess>>

C23_Witness ==
    /\ impl = "router" /\ pc = "save" /\ user_query = <<" ", "\t", " ">>
    /\ subscription_tier = "trial" /\ requested_model = "gpt-5"
    /\ models_used = <<>> /\ error = "none"

\* The fragments ps are non-empty, trimmed, and hold the words of q in order.
Lossless(q, ps) ==
    /\ ps # <<>>
    /\ \A n \in 1..Len(ps) :
          ps[n] # <<>> /\ ~Blank(ps[n][1]) /\ ~Blank(ps[n][Len(ps[n])])
    /\ WordsOf(JoinSpace(ps)) = WordsOf(q)

\* C24 as stated: for every non-empty query split_prompt returns a non-empty
\* sequence of non-empty trimmed fragments which, joined with single spaces,
\* have the words of the query.
C24_Original ==
    (impl = "router" /\ pc # "route" /\ user_query # <<>>) =>
        Lossless(user_query, micro_prompts)

\* C24 amended: for every query with at least one character that is not
\* whitespace, split_prompt returns a non-empty sequence of non-empty trimmed
\* fragments which, joined with single spaces, have exactly the words of the
\* query, in order, each sentence end kept with its fragment.
C24_LosslessDecomposition ==
    (impl = "router" /\ pc # "route" /\ ~AllBlank(user_query)) =>
        /\ Lossless(user_query, micro_prompts)
        /\ \A n \in 1..(Len(micro_prompts) - 1) :
              micro_prompts[n][Len(micro_prompts[n])] \in {".", "?", "!"}

C24_Witness ==
    /\ impl = "router" /\ pc = "gather"
    /\ user_query = <<"a", ".", "\t", " ", "?">>
    /\ micro_prompts = <<(<<"a", ".">>), (<<"?">>)>>

\* C25: the eligible-model list computed for a tier (by the router, and as
\* available_models by the research agent) holds a model if and only if the
\* model is a key of MODEL_CONFIG whose allowed_subs holds the tier; it may be
\* empty; computing it leaves MODEL_CONFIG as it was.
C25_EligibleModels ==
    /\ [](LET got == _get_available_models_for_sub(subscription_tier)
          IN  /\ \A m \in ModelNames \cup AgentModels :
                    InSeq(m, got) <=>
                        (m \in DOMAIN MODEL_CONFIG
                            /\ subscription_tier \in MODEL_CONFIG[m].allowed_subs)
              /\ \A i \in 1..Len(got) : got[i] \in DOMAIN MODEL_CONFIG
              /\ subscription_tier = "trial" => got = <<>>
              /\ (Dispatched /\ requested_model = "auto") =>
                    \A i \in 1..Len(models_used) : InSeq(models_used[i].model, got))
    /\ [][settings' = settings]_vars

C25_Witness ==
    /\ Dispatched /\ requested_model = "auto" /\ subscription_tier = "pro"
    /\ Len(models_used) = 3
    /\ models_used[1].model = "gpt-4-o" /\ models_used[2].model = "mistral-7b"
    /\ models_used[3].model = "gpt-4-o"

\* C28 as stated: when the caller's tier has no eligible model, a run of
\* LangGraphAgent that reaches the researcher ends there with the
\* no-eligible-models error: no assignment is produced, nothing is dispatched
\* and nothing synthesized, whatever the research agent outputs.
C28_AgentNoEligibleAborts ==
    (impl = "agent" /\ EligibleInOrder(subscription_tier) = <<>>) =>
        /\ pc \in {"prompt_breaker", "researcher", "failed"}
        /\ model_assignments = <<>> /\ tasks = <<>> /\ aggregated_response = <<>>
        /\ error \in {"none", "prompt_breaker_error", "no_models"}

\* C29: when the research agent's output holds no JSON object that parses and
\* the tier has an eligible model, model_assignments maps every current
\* micro-prompt, and only those, each once, to the first eligible model, and the
\* parse failure raises nothing.
C29_MalformedFallsBack ==
    (impl = "agent" /\ EligibleInOrder(subscription_tier) # <<>>) =>
        /\ error \in {"none", "prompt_breaker_error", "researcher_error", "linker_error"}
        /\ pc \in {"llm_caller", "gather", "linker", "END"} =>
              /\ \A k \in 1..Len(model_assignments) :
                    /\ InSeq(model_assignments[k].prompt, micro_prompts)
                    /\ model_assignments[k].model = EligibleInOrder(subscription_tier)[1]
              /\ \A n \in 1..Len(micro_prompts) :
                    \E k \in 1..Len(model_assignments) :
                        model_assignments[k].prompt = micro_prompts[n]
              /\ \A j, k \in 1..Len(model_assignments) :
                    j # k => model_assignments[j].prompt # model_assignments[k].prompt

C29_Witness ==
    /\ impl = "agent" /\ pc = "END" /\ subscription_tier = "pro"
    /\ micro_prompts = <<(<<"b", "?">>), (<<"b", "?">>)>>
    /\ model_assignments = <<[prompt |-> <<"b", "?">>, model |-> "gpt-4-o"]>>

\* C30 as stated: the models_used of _llm_caller_node has exactly one entry per
\* provider call dispatched (one per assignment key that is a current
\* micro-prompt), in the same order, and none for a stale assignment.
C30_StalePrunedFromUsage ==
    (impl = "agent" /\ pc \in {"linker", "END"}) =>
        /\ Len(models_used) = Len(tasks)
        /\ \A i \in 1..Len(models_used) : models_used[i].model = TaskModels[i]

\* The assignments whose key is a current micro-prompt, in dict order.
LiveAssignments ==
    SelectSeq(model_assignments, LAMBDA a : \E n \in 1..Len(micro_prompts) :
                                                micro_prompts[n] = a.prompt)

\* C30 amended: the models_used of _llm_caller_node has exactly one entry per
\* assignment, stale ones included, in assignment order, each with the model
\* and its provider; one provider call is dispatched per assignment whose key
\* is a current micro-prompt, in the same order, so models_used has at least as
\* many entries as calls.
C30_UsageCoversAssignments ==
    (impl = "agent" /\ pc \in {"linker", "END"}) =>
        /\ Len(models_used) = Len(model_assignments)
        /\ \A k \in 1..Len(model_assignments) :
              /\ models_used[k].model = model_assignments[k].model
              /\ models_used[k].provider =
                    (IF Known(models_used[k].model)
                     THEN MODEL_CONFIG[models_used[k].model].provider ELSE "None")
        /\ Len(tasks) = Len(LiveAssignments)
        /\ \A i \in 1..Len(tasks) : tasks[i].prompt = LiveAssignments[i].prompt
        /\ Len(models_used) >= Len(tasks)

C30_Witness ==
    /\ impl = "agent" /\ pc = "END"
    /\ Len(models_used) = 3 /\ Len(tasks) = 1
    /\ model_assignments[1].prompt = StalePrompt
    /\ models_used[1].model = "gpt-5" /\ models_used[1].provider = "None"

\* C31 as stated: for every response the breaker chain can return, one without a
\* "prompts" key or with an empty "prompts" list included, the prompt breaker
\* leaves a non-empty list of non-empty fragments for a non-empty query.
C31_BreakerNonEmpty ==
    (/\ impl = "agent"
     /\ pc \in {"researcher", "llm_caller", "gather", "linker", "END"}
     /\ user_query # <<>>) =>
        /\ micro_prompts # <<>>
        /\ \A n \in 1..Len(micro_prompts) : micro_prompts[n] # <<>>

\* C32: a /chat request returns the success response (statusCode 200) only when
\* access validation, routing and save_chat_history all completed without
\* raising; an HTTPException raised by a step reaches the caller with its own
\* status code (404, 403, or the 500 of a failed save), any other exception
\* (no models available) reaches it as 500; no request ends with both an error
\* and a response body.
C32_ErrorOutcomes ==
    impl = "router" =>
        /\ res # <<>> <=> status = HTTP_200_OK
        /\ status = HTTP_200_OK =>
              /\ error = "none" /\ pc = "done"
              /\ requested_model # "auto" =>
                    /\ Known(requested_model)
                    /\ Allowed(requested_model, subscription_tier)
              /\ ~Pending
              /\ Len(chat_history) = 1
        /\ error = "not_found" =>
              status = HTTP_404_NOT_FOUND /\ ~Known(requested_model)
        /\ error = "forbidden" =>
              /\ status = HTTP_403_FORBIDDEN
              /\ Known(requested_model)
              /\ ~Allowed(requested_model, subscription_tier)
        /\ error = "save_failed" =>
              status = HTTP_500_INTERNAL_SERVER_ERROR /\ Len(save_calls) = 1
        /\ error = "no_models" =>
              status = HTTP_500_INTERNAL_SERVER_ERROR /\ requested_model = "auto"
        /\ error # "none" => res = <<>> /\ chat_history = <<>> /\ pc = "done"
        /\ (pc = "done" /\ error = "none") => status = HTTP_200_OK
        /\ (pc = "done" /\ Denied) => error \in {"not_found", "forbidden"}

C32_Witness ==
    /\ impl = "router" /\ pc = "done"
    /\ error = "save_failed" /\ status = HTTP_500_INTERNAL_SERVER_ERROR
    /\ requested_model # "auto" /\ Len(tasks) = 2
    /\ res = <<>>

\* C33 as stated: for every interleaving of concurrent save_chat_history calls
\* that carry the same user email and the same new chat_id, at most one users
\* row is inserted for that email and at most one chat_sessions row for that
\* chat_id, and a chat_history row is inserted only after its session row exists.
C33_FindOrCreateSafe ==
    (/\ impl = "save"
     /\ \A c, d \in Savers : /\ savers[c].email = savers[d].email
                            /\ savers[c].chat_id = savers[d].chat_id) =>
        \A c \in Savers :
            /\ Cardinality({i \in DOMAIN users :
                              /\ users[i].email = savers[c].email
                              /\ users[i].id \in Savers}) <= 1
            /\ Cardinality({i \in DOMAIN chat_sessions :
                              chat_sessions[i].id = savers[c].chat_id}) <= 1
            /\ \A i \in DOMAIN chat_history :
                  \E j \in DOMAIN chat_sessions :
                      chat_sessions[j].id = chat_history[i].session_id

====
